---- MODULE Spec2Model ----
(***************************************************************************)
(* Model of the session progress engine of src/app.py (a Streamlit quiz).  *)
(*                                                                         *)
(* One script run of app.py (from load_player_state to st.stop / st.rerun) *)
(* is one action.  The variable `state` is the progress file of the player *)
(* (the dict that load_player_state returns and save_json writes): a       *)
(* function from key names to values, a key that the dict does not hold is *)
(* not in its DOMAIN.  `pending` and `only_unanswered` are the Streamlit   *)
(* session state, `questions` and `today` are the environment, `lb` is the *)
(* leaderboard table.  Timestamps ("ts", "updated_at") are left out: no    *)
(* branch of the program reads them.                                       *)
(***************************************************************************)
EXTENDS Integers, Sequences, FiniteSets, TLC

\* ------------------------------------------------------------------ bounds
NumOpts == 3       \* option indices of a multiple-choice question: 0..NumOpts-1
NumSessions == 2   \* browser sessions calling lb_upsert_daily at the same time

NumPlayers == 2    \* leaderboard players are 1..NumPlayers, in alphabetical order
MaxScore == 1      \* counters of a leaderboard row are 0..MaxScore
MaxRows == 2       \* the n of a leaderboard read is 1..MaxRows
MaxCalls == 2      \* calls of a function with the same arguments
MaxItems == 3      \* deterministic_shuffle is called on lists of up to MaxItems ids
MaxRawId == 3      \* "id" values in a question file are -1..MaxRawId, or absent
MaxBase == 3       \* questions in a base file
MaxCustom == 2     \* questions in a custom file
NumQ == 2          \* question ids are 1..NumQ
MaxDay == 2        \* calendar days are 1..MaxDay
MaxEpochs == 1     \* reshuffle-all and full-reset clicks per behaviour
MaxOrderLen == 5   \* no repeat is scheduled into an order of this length
MaxPractice == 2   \* wrong-only practice runs started per behaviour
MaxGap == 2        \* sr_gap values a progress file holds are 1..MaxGap

\* state.get("sr_gap", 7) or 7
SR_GAP_DEFAULT == 7

VARIABLES
    state,            \* the persisted PlayerState (progress/<player>__<quiz>.json)
    questions,        \* ids of load_questions(), in file order
    today,            \* date.today()
    pending,          \* st.session_state["pending"]: <<>> (None) or <<dict>>
    only_unanswered,  \* the "Nur unbeantwortete Fragen" toggle (widget state)
    lb,               \* leaderboard rows of the player: day key -> counters
    sent,             \* score deltas the last run handed to lb_upsert_daily
    scheduled,        \* history: repeats scheduled per id since the last reset
    epochs,           \* history: number of reshuffle-all / full-reset clicks
    practices,        \* history: number of wrong-only practice runs started
    call              \* a function called on its own: <<>> or <<arguments and result>>

vars == <<state, questions, today, pending, only_unanswered,
          lb, sent, scheduled, epochs, practices, call>>

QIds == 1..NumQ
Days == 1..MaxDay
player == "alice"

\* ------------------------------------------------------------ dict helpers
EmptyMap == [x \in {} |-> 0]
Has(d, k) == k \in DOMAIN d
Get(d, k, default) == IF k \in DOMAIN d THEN d[k] ELSE default
Put(d, k, v) == [x \in DOMAIN d \cup {k} |-> IF x = k THEN v ELSE d[x]]
Pop(d, k) == [x \in DOMAIN d \ {k} |-> d[x]]
\* variant: the new dict replaces the old one
Merge_replace(a, b) == b

\* {**a, **b}
Merge(a, b) == [x \in DOMAIN a \cup DOMAIN b |-> IF x \in DOMAIN b THEN b[x] ELSE a[x]]

\* str(qid): the key of a question in answered / practice_answered / focus_answered
STR(q) == "q" \o ToString(q)
\* str(date.today()): the key of a day in daily and in the leaderboard
DAY(d) == "d" \o ToString(d)

Min(a, b) == IF a < b THEN a ELSE b
Max(a, b) == IF a > b THEN a ELSE b
Range(s) == {s[i] : i \in 1..Len(s)}
Count(s, q) == Cardinality({i \in 1..Len(s) : s[i] = q})

\* ------------------------------------------------------------- questions
\* The dataset: question q is single choice, open or multiple choice.  Single
\* choice questions have options 0,1 with correct = [0]; multiple choice
\* questions have options 0,1 with correct = [0,1].
QType(q) == IF q % 3 = 2 THEN "open" ELSE "mc"
QAnswerType(q) == IF q % 3 = 0 THEN "multi" ELSE "single"
QCorrect(q) == IF q % 3 = 0 THEN <<0, 1>> ELSE <<0>>

\* the dict of question q; "answerType" is left out of single choice questions
Question(q) ==
    IF QAnswerType(q) = "multi"
    THEN [id |-> q, type |-> QType(q), correct |-> QCorrect(q), answerType |-> "multi"]
    ELSE [id |-> q, type |-> QType(q), correct |-> QCorrect(q)]

\* variant: in multi mode every selected index has to be a correct one
is_correct_mc_subset(q, selected) ==
    IF Get(q, "answerType", "single") = "multi"
    THEN Range(selected) \subseteq Range(Get(q, "correct", <<>>))
    ELSE Len(selected) = 1 /\ selected[1] \in Range(Get(q, "correct", <<>>))

\* is_correct_mc(q, selected); q is a question dict, selected a list of
\* option indices
is_correct_mc(q, selected) ==
    LET correct == Range(Get(q, "correct", <<>>))
    IN IF Get(q, "answerType", "single") = "multi"
       THEN Range(selected) = correct
       ELSE Len(selected) = 1 /\ selected[1] \in correct

\* --------------------------------------------------------------- shuffle
\* Keys are sequences of small numbers: mix_key = f"{today}#{nonce}" is
\* <<today, nonce>>, "" is <<>>, key + "|new" appends 1, key + "|wrong" appends 2.
RECURSIVE KeyHash(_, _)
KeyHash(key, acc) ==
    IF key = <<>> THEN acc
    ELSE KeyHash(Tail(key), (acc * 31 + Head(key) + 7) % 1009)

\* the seed of random.Random: a digest of player + "|" + day (a small stand-in
\* for the first 8 bytes of sha256)
Seed(p, key) == KeyHash(key, IF p = "alice" THEN 17 ELSE 5)

\* one draw of the generator (a small linear congruential stand-in)
NextRand(x) == (x * 37 + 11) % 1009

\* variant: the exchange loses the element at position i
Swap_overwrite(s, i, j) == [s EXCEPT ![i] = s[j]]

Swap(s, i, j) == [s EXCEPT ![i] = s[j], ![j] = s[i]]

\* random.shuffle: for i in reversed(range(1, n)): j = randbelow(i + 1); swap
RECURSIVE ShuffleFrom(_, _, _)
ShuffleFrom(s, i, x) ==
    IF i < 2 THEN s
    ELSE LET x2 == NextRand(x)
             j == (x2 % i) + 1
         IN ShuffleFrom(Swap(s, i, j), i - 1, x2)

deterministic_shuffle(p, key, items) ==
    ShuffleFrom(items, Len(items), Seed(p, key))

\* ---------------------------------------------------- ensure_daily_order
\* variant: the key leaves out the shuffle nonce
MixKey_day_only(s, day) == <<day, 0>>

MixKey(s, day) == <<day, Get(s, "shuffle_nonce", 0)>>

\* variant: regeneration keeps the stored cursor
Regenerated_keep_cursor(s, ids, day) ==
    Put(Put(s, "order_date", MixKey(s, day)),
               "order", deterministic_shuffle(player, MixKey(s, day), ids))

Regenerated(s, ids, day) ==
    Put(Put(Put(s, "order_date", MixKey(s, day)),
                   "order", deterministic_shuffle(player, MixKey(s, day), ids)),
                   "cursor", 0)

\* variant: no id counts as missing
Missing_none(ids, order) == <<>>

\* variant: every id counts as missing
Missing_all(ids, order) == ids

\* missing = [i for i in ids if i not in order_set]
Missing(ids, order) == SelectSeq(ids, LAMBDA i : i \notin Range(order))

Clamp(c, n) == Max(0, Min(c, n))

\* variant: appending new questions sends the cursor back to the start
ensure_daily_order_rewind(s, ids, day) ==
    LET mix_key == MixKey(s, day)
        order == Get(s, "order", <<>>)
        order_date == Get(s, "order_date", <<>>)
    IN IF order_date # mix_key \/ order = <<>>
       THEN Regenerated(s, ids, day)
       ELSE IF ~(Range(order) \subseteq Range(ids))
       THEN Regenerated(s, ids, day)
       ELSE LET missing == Missing(ids, order)
                new_order == IF missing # <<>>
                             THEN order \o deterministic_shuffle(player, Append(mix_key, 1), missing)
                             ELSE order
            IN Put(Put(s, "order", new_order),
                      "cursor", IF missing # <<>> THEN 0
                                ELSE Clamp(Get(s, "cursor", 0), Len(new_order)))

ensure_daily_order(s, ids, day) ==
    LET mix_key == MixKey(s, day)
        order == Get(s, "order", <<>>)
        order_date == Get(s, "order_date", <<>>)
    IN IF order_date # mix_key \/ order = <<>>
       THEN Regenerated(s, ids, day)
       ELSE IF ~(Range(order) \subseteq Range(ids))
       THEN Regenerated(s, ids, day)
       ELSE LET missing == Missing(ids, order)
                new_order == IF missing # <<>>
                             THEN order \o deterministic_shuffle(player, Append(mix_key, 1), missing)
                             ELSE order
            IN Put(Put(s, "order", new_order),
                      "cursor", Clamp(Get(s, "cursor", 0), Len(new_order)))

\* ------------------------------------------------- the script, top to bottom
\* load_player_state's default and the dict of the full-reset button
Skeleton ==
    [player |-> player, cursor |-> 0, order_date |-> <<>>, order |-> <<>>,
     answered |-> EmptyMap, daily |-> EmptyMap]

\* if "mode" not in state: state["mode"] = "normal"
Norm(s) == IF Has(s, "mode") THEN s ELSE Put(s, "mode", "normal")

InFocus(s) == Get(s, "mode", "") = "focus_wrong"
InPractice(s) == Get(s, "practice_mode", "") = "wrong_only"

\* a.get("skipped") is True or a.get("correct") is False or a.get("unsure") is True
IsWrongRecord(a) ==
    \/ Get(a, "skipped", FALSE)
    \/ Get(a, "correct", "null") = "false"
    \/ Get(a, "unsure", FALSE)

RECURSIVE Uniq(_, _)
Uniq(s, seen) ==
    IF s = <<>> THEN <<>>
    ELSE IF Head(s) \in seen THEN Uniq(Tail(s), seen)
    ELSE <<Head(s)>> \o Uniq(Tail(s), seen \cup {Head(s)})

\* state.get("answered", {}).get(str(qid)) or {}
Record(s, q) == Get(Get(s, "answered", EmptyMap), STR(q), EmptyMap)

\* variant: repeats in the order are not removed from the focus list
compute_focus_list_with_repeats(s) ==
    SelectSeq(Get(s, "order", <<>>),
              LAMBDA q : ~Get(Record(s, q), "mastered", FALSE) /\ IsWrongRecord(Record(s, q)))

compute_focus_list(s) ==
    Uniq(SelectSeq(Get(s, "order", <<>>),
                   LAMBDA q : ~Get(Record(s, q), "mastered", FALSE) /\ IsWrongRecord(Record(s, q))),
         {})

\* order = state.get("order") or [ids]; overridden by focus_order in focus mode
EffOrder(s, ids) ==
    IF InFocus(s) THEN Get(s, "focus_order", <<>>)
    ELSE IF Get(s, "order", <<>>) # <<>> THEN s.order ELSE ids

\* cursor_pos before the toggle (0-based, as in the code)
EffCursor(s, ids) ==
    IF InFocus(s) THEN Clamp(Get(s, "focus_cursor", 0), Len(EffOrder(s, ids)))
    ELSE Clamp(Get(s, "cursor", 0), Len(EffOrder(s, ids)))

ActiveKey(s) ==
    IF InFocus(s) THEN "focus_answered"
    ELSE IF InPractice(s) THEN "practice_answered"
    ELSE "answered"

\* state.setdefault('focus_answered', {}) / state.setdefault('practice_answered', {})
WithActive(s) ==
    IF Has(s, ActiveKey(s)) THEN s ELSE Put(s, ActiveKey(s), EmptyMap)

active_answered(s) == Get(s, ActiveKey(s), EmptyMap)

SetMin(S) == CHOOSE x \in S : \A y \in S : x <= y

\* the "Nur unbeantwortete Fragen" search: forward from the cursor, then wrap
only_unanswered_pos(order, active, cursor_pos) ==
    LET start == Min(cursor_pos, Max(Len(order) - 1, 0))
        open(i) == STR(order[i + 1]) \notin DOMAIN active
        fwd == {i \in start..(Len(order) - 1) : open(i)}
        wrap == {i \in 0..(start - 1) : open(i)}
    IN IF fwd # {} THEN SetMin(fwd)
       ELSE IF wrap # {} THEN SetMin(wrap)
       ELSE cursor_pos

\* The script's locals for the in-memory dict s (after Norm and WithActive):
\* order, cursor_pos, active_answered, where the run ends up, and qid
ViewOf(s, ids, tog, pend) ==
    LET order == EffOrder(s, ids)
        active == active_answered(s)
        cp == IF ~InFocus(s) /\ tog
              THEN only_unanswered_pos(order, active, EffCursor(s, ids))
              ELSE EffCursor(s, ids)
        all_answered == \A i \in 1..Len(order) : STR(order[i]) \in DOMAIN active
        scr == IF InFocus(s) /\ (cp >= Len(order) \/ Len(order) = 0) THEN "focus_finish"
               ELSE IF cp >= Len(order) \/ all_answered THEN "finish"
               ELSE IF order[cp + 1] \notin Range(ids) THEN "error"   \* by_id[qid]: KeyError
               ELSE IF pend # <<>> /\ pend[1].qid = order[cp + 1] THEN "modal"
               ELSE "question"
        qid == IF scr \in {"modal", "question"} THEN order[cp + 1] ELSE 0
    IN [order |-> order, pos |-> cp, active |-> active, screen |-> scr, qid |-> qid,
        locked |-> STR(qid) \in DOMAIN active]

\* ---------------------------------------------------------- bump_daily
ZeroCounters == [correct |-> 0, wrong |-> 0, skipped |-> 0, unsure |-> 0, total |-> 0]

\* variant: a skipped question is counted as wrong as well
bump_daily_skip_is_wrong(s, day, correct, skipped, unsure) ==
    LET d == Get(s.daily, DAY(day), ZeroCounters)
        d1 == [d EXCEPT !.total = @ + 1]
        d2 == IF skipped THEN [d1 EXCEPT !.skipped = @ + 1, !.wrong = @ + 1]
              ELSE LET d3 == IF correct = "true" THEN [d1 EXCEPT !.correct = @ + 1]
                             ELSE [d1 EXCEPT !.wrong = @ + 1]
                   IN IF unsure THEN [d3 EXCEPT !.unsure = @ + 1] ELSE d3
    IN Put(s, "daily", Put(s.daily, DAY(day), d2))

\* bump_daily(state, correct, skipped, unsure) on the row of day
bump_daily(s, day, correct, skipped, unsure) ==
    LET d == Get(s.daily, DAY(day), ZeroCounters)
        d1 == [d EXCEPT !.total = @ + 1]
        d2 == IF skipped THEN [d1 EXCEPT !.skipped = @ + 1]
              ELSE LET d3 == IF correct = "true" THEN [d1 EXCEPT !.correct = @ + 1]
                             ELSE [d1 EXCEPT !.wrong = @ + 1]
                   IN IF unsure THEN [d3 EXCEPT !.unsure = @ + 1] ELSE d3
    IN Put(s, "daily", Put(s.daily, DAY(day), d2))

\* ------------------------------------------------------ lb_upsert_daily
ZeroRow == [correct |-> 0, wrong |-> 0, skipped |-> 0]

lb_upsert_daily(rows, day, delta) ==
    LET row == Get(rows, DAY(day), ZeroRow)
    IN Put(rows, DAY(day), [correct |-> row.correct + delta.correct,
                            wrong |-> row.wrong + delta.wrong,
                            skipped |-> row.skipped + delta.skipped])

\* the lb_upsert_daily call of persist_and_advance for outcome r
DeltasFor(r) ==
    IF Get(r, "skipped", FALSE) THEN <<[correct |-> 0, wrong |-> 0, skipped |-> 1]>>
    ELSE IF r.correct = "true" THEN <<[correct |-> 1, wrong |-> 0, skipped |-> 0]>>
    ELSE IF r.correct = "false" THEN <<[correct |-> 0, wrong |-> 1, skipped |-> 0]>>
    ELSE <<>>

\* ------------------------------------------------- persist_and_advance
\* int(state.get("sr_gap", 7) or 7)
Gap(s) == LET g == Get(s, "sr_gap", SR_GAP_DEFAULT) IN IF g = 0 THEN SR_GAP_DEFAULT ELSE g

should_repeat(r) ==
    Get(r, "skipped", FALSE) \/ Get(r, "correct", "null") = "false" \/ Get(r, "unsure", FALSE)

\* repeats = int(result_dict.get("repeats") or 0)
RepeatsOf(r) == Get(r, "repeats", 0)

\* variant: repeats are scheduled in focus mode too
WillSchedule_any_mode(s, v, r) ==
    /\ ~v.locked
    /\ should_repeat(r)
    /\ RepeatsOf(r) < 2
    /\ v.qid \notin Range(SubSeq(v.order, v.pos + 2, Len(v.order)))

\* schedule_repeat_if_needed reaches its insert; v holds the script's locals
WillSchedule(s, v, r) ==
    /\ ~InFocus(s)
    /\ ~v.locked                                  \* first_time
    /\ should_repeat(r)
    /\ RepeatsOf(r) < 2
    /\ v.qid \notin Range(SubSeq(v.order, v.pos + 2, Len(v.order)))

\* variant: the repeat always goes to the end of the order
InsertRepeat_end(order, at, qid) == Append(order, qid)

\* order[:insert_at] + [qid] + order[insert_at:]
InsertRepeat(order, at, qid) ==
    SubSeq(order, 1, at) \o <<qid>> \o SubSeq(order, at + 1, Len(order))

\* variant: every submission is counted
Counted_always(s, v) == TRUE

\* variant: practice submissions are counted like normal ones
Counted_in_practice(s, v) ==
    /\ STR(v.qid) \notin DOMAIN Get(s, "answered", EmptyMap)
    /\ ~InFocus(s)

\* first_time_master and (not in_practice) and (not in_focus)
Counted(s, v) ==
    /\ STR(v.qid) \notin DOMAIN Get(s, "answered", EmptyMap)
    /\ ~InPractice(s)
    /\ ~InFocus(s)

\* if in_focus and merged correct, not skipped, not unsure: merged["mastered"] = True
Mastered(in_focus, merged) ==
    IF in_focus /\ Get(merged, "correct", "null") = "true"
       /\ ~Get(merged, "skipped", FALSE) /\ ~Get(merged, "unsure", FALSE)
    THEN Put(merged, "mastered", TRUE)
    ELSE merged

\* the dict persist_and_advance(result_dict) saves first (line 1182): record
\* merged, repeat scheduled, cursor advanced, dailyStats not yet counted
saved_uncounted(s, v, r) ==
    LET in_focus == InFocus(s)
        sched == WillSchedule(s, v, r)
        s1 == IF sched
              THEN Put(s, "order", InsertRepeat(v.order, Min(v.pos + Gap(s), Len(v.order)), v.qid))
              ELSE s
        r1 == IF sched THEN Put(r, "repeats", RepeatsOf(r) + 1) ELSE r
        merged == Mastered(in_focus, Merge(Record(s, v.qid), r1))
        s2 == Put(s1, "answered", Put(s1.answered, STR(v.qid), merged))
        s3 == IF in_focus
              THEN Put(s2, "focus_answered", Put(Get(s2, "focus_answered", EmptyMap), STR(v.qid), merged))
              ELSE IF InPractice(s2)
              THEN Put(s2, "practice_answered", Put(Get(s2, "practice_answered", EmptyMap), STR(v.qid), merged))
              ELSE s2
    IN IF in_focus
       THEN Put(s3, "focus_cursor", Min(Get(s3, "focus_cursor", v.pos) + 1, Len(v.order)))
       ELSE Put(s3, "cursor", Min(v.pos + 1, Len(v.order)))

\* the dict persist_and_advance(result_dict) saves last (line 1189 for a
\* counted submission, line 1182 otherwise)
persist_and_advance(s, v, day, r) ==
    IF Counted(s, v)
    THEN bump_daily(saved_uncounted(s, v, r), day, r.correct,
                    Get(r, "skipped", FALSE), Get(r, "unsure", FALSE))
    ELSE saved_uncounted(s, v, r)

\* variant: the file still holds the first save when the delta is sent
file_when_delta_sent_uncounted(s, v, day, r) == saved_uncounted(s, v, r)

\* the progress file at the time lb_upsert_daily is called: both save_json
\* calls (lines 1182 and 1189) come before it
file_when_delta_sent(s, v, day, r) == persist_and_advance(s, v, day, r)

\* variant: a delta is sent for every scored submission
deltas_sent_always(s, v, r) == DeltasFor(r)

\* the score deltas persist_and_advance(result_dict) sends
deltas_sent(s, v, r) == IF Counted(s, v) THEN DeltasFor(r) ELSE <<>>

\* ------------------------------------------------ the buttons' handlers
\* variant: the cursor reset clears the answer history too
reset_cursor_and_history(s) == Put(Put(s, "cursor", 0), "answered", EmptyMap)

\* "Fortschritt zuruecksetzen (nur Cursor)": state["cursor"] = 0
reset_cursor(s) == Put(s, "cursor", 0)

\* variant: the full reset keeps the answer history
reset_all_keep_answered(p) ==
    [player |-> p, cursor |-> 0, order_date |-> <<>>, order |-> <<>>,
     answered |-> state.answered, daily |-> EmptyMap]

\* "Alles zuruecksetzen (Cursor + Historie)": the dict literal of line 759
reset_all(p) ==
    [player |-> p, cursor |-> 0, order_date |-> <<>>, order |-> <<>>,
     answered |-> EmptyMap, daily |-> EmptyMap]

\* variant: the focus run starts at the position of the normal traversal
enter_focus_at_cursor(s) ==
    Put(Put(Put(Put(Put(s, "mode", "focus_wrong"),
                           "resume_cursor", Get(s, "cursor", 0)),
                           "focus_order", compute_focus_list(s)),
                           "focus_cursor", Get(s, "cursor", 0)),
                           "focus_answered", EmptyMap)

\* focus entry button
enter_focus(s) ==
    Put(Put(Put(Put(Put(s, "mode", "focus_wrong"),
                           "resume_cursor", Get(s, "cursor", 0)),
                           "focus_order", compute_focus_list(s)),
                           "focus_cursor", 0),
                           "focus_answered", EmptyMap)

\* variant: leaving focus mode keeps the cursor as it is
resume_normal_keep_cursor(s) ==
    Pop(Pop(Pop(Pop(Put(s, "mode", "normal"),
                    "focus_order"), "focus_cursor"), "resume_cursor"), "focus_answered")

\* "Normal weiter machen": mode = normal, cursor = resume_cursor, focus keys popped
resume_normal(s) ==
    LET s1 == Put(Put(s, "mode", "normal"),
                     "cursor", Get(s, "resume_cursor", Get(s, "cursor", 0)))
    IN Pop(Pop(Pop(Pop(s1, "focus_order"), "focus_cursor"), "resume_cursor"), "focus_answered")

\* "Fokus nochmal starten"
restart_focus(s) ==
    IF compute_focus_list(s) = <<>>
    THEN resume_normal(s)
    ELSE Put(Put(Put(Put(s, "mode", "focus_wrong"),
                            "focus_order", compute_focus_list(s)),
                            "focus_cursor", 0),
                            "focus_answered", EmptyMap)

\* "Zurueck zum normalen Quiz"
practice_back(s, ids, day) ==
    Put(ensure_daily_order(Pop(Put(s, "practice_mode", "all"), "practice_answered"), ids, day),
        "cursor", 0)

\* wrong_ids of the finish screen; order is the script's local order
wrong_ids(s, order) == SelectSeq(order, LAMBDA q : IsWrongRecord(Record(s, q)))

\* "Nur die Falschen ueben"
practice_wrong(s, order, day) ==
    LET key == Append(Get(s, "order_date", <<day>>), 2)
        s1 == Put(Put(s, "practice_mode", "wrong_only"), "practice_answered", EmptyMap)
        s2 == Put(s1, "order", deterministic_shuffle(player, key, wrong_ids(s, order)))
    IN Put(s2, "cursor", 0)

\* variant: the nonce is not bumped, so the stored order is kept
reshuffle_all_same_nonce(s, ids, day) ==
    LET s1 == Put(s, "answered", EmptyMap)
        s2 == Put(s1, "daily", Put(Get(s1, "daily", EmptyMap), DAY(day), ZeroCounters))
        s3 == Put(Put(s2, "mode", "normal"), "practice_mode", "all")
        s4 == Pop(Pop(Pop(Pop(s3, "focus_order"), "focus_cursor"), "resume_cursor"), "practice_answered")
    IN Put(ensure_daily_order(s4, ids, day), "cursor", 0)

\* variant: the whole daily map is replaced by a zeroed row for today
reshuffle_all_fresh_daily(s, ids, day) ==
    LET s1 == Put(s, "answered", EmptyMap)
        s2 == Put(s1, "daily", Put(EmptyMap, DAY(day), ZeroCounters))
        s3 == Put(Put(s2, "mode", "normal"), "practice_mode", "all")
        s4 == Pop(Pop(Pop(Pop(s3, "focus_order"), "focus_cursor"), "resume_cursor"), "practice_answered")
        s5 == Put(s4, "shuffle_nonce", Get(s4, "shuffle_nonce", 0) + 1)
    IN Put(ensure_daily_order(s5, ids, day), "cursor", 0)

\* "Alle von vorne (neu gemischt)"
reshuffle_all(s, ids, day) ==
    LET s1 == Put(s, "answered", EmptyMap)
        s2 == Put(s1, "daily", Put(Get(s1, "daily", EmptyMap), DAY(day), ZeroCounters))
        s3 == Put(Put(s2, "mode", "normal"), "practice_mode", "all")
        s4 == Pop(Pop(Pop(Pop(s3, "focus_order"), "focus_cursor"), "resume_cursor"), "practice_answered")
        s5 == Put(s4, "shuffle_nonce", Get(s4, "shuffle_nonce", 0) + 1)
    IN Put(ensure_daily_order(s5, ids, day), "cursor", 0)

\* ------------------------------------------------------------ the runs
RECURSIVE SeqOf(_)
\* the ids of a dataset in file order (ascending)
SeqOf(S) == IF S = {} THEN <<>> ELSE <<SetMin(S)>> \o SeqOf(S \ {SetMin(S)})

NoneScheduled == [q \in QIds |-> 0]

\* state after load_player_state, ensure_daily_order, save_json (lines 712-715)
Loaded == ensure_daily_order(state, questions, today)

\* the in-memory dict from line 822 on, when no sidebar button was clicked
Mem == WithActive(Norm(Loaded))

\* the script's locals of a run that starts in the current state
Cur == ViewOf(Mem, questions, only_unanswered, pending)

\* what a run leaves behind: s is the dict it saved last.  A handler that ends
\* in st.rerun() leaves the rerun's load / ensure_daily_order / save to the
\* next run, which every action starts with (Loaded).  The toggle is not
\* rendered in focus mode and falls back to its default.
EndRun(s, pend, tog) ==
    /\ state' = s
    /\ pending' = pend
    /\ only_unanswered' = (IF InFocus(s) THEN FALSE ELSE tog)
    /\ UNCHANGED <<questions, today, call>>

NoScore == UNCHANGED lb /\ sent' = <<>>
NoReset == UNCHANGED <<scheduled, epochs>>
NoPractice == UNCHANGED practices

Init ==
    /\ state = Skeleton
    /\ questions = SeqOf(QIds)
    /\ today = 1
    /\ pending = <<>>
    /\ only_unanswered = FALSE
    /\ lb = EmptyMap
    /\ sent = <<>>
    /\ scheduled = NoneScheduled
    /\ epochs = 0
    /\ practices = 0
    /\ call = <<>>

\* a run without a click: first visit, browser reload, or the run st.rerun() starts
PageLoad ==
    /\ EndRun(Loaded, pending, only_unanswered)
    /\ NoScore /\ NoReset /\ NoPractice

ToggleOnlyUnanswered ==
    /\ ~InFocus(Mem)
    /\ EndRun(Loaded, pending, ~only_unanswered)
    /\ NoScore /\ NoReset /\ NoPractice

\* "Fortschritt zuruecksetzen (nur Cursor)"
ResetCursor ==
    /\ EndRun(reset_cursor(Loaded), pending, only_unanswered)
    /\ NoScore /\ NoReset /\ NoPractice

\* "Alles zuruecksetzen (Cursor + Historie)"
ResetAll ==
    /\ epochs < MaxEpochs
    /\ EndRun(reset_all(player), pending, only_unanswered)
    /\ NoScore
    /\ scheduled' = NoneScheduled
    /\ epochs' = epochs + 1
    /\ NoPractice

\* the focus entry button
EnterFocus ==
    /\ LET s == Norm(Loaded)
       IN /\ s.mode = "normal"
          /\ compute_focus_list(s) # <<>>
          /\ EndRun(enter_focus(s), pending, only_unanswered)
    /\ NoScore /\ NoReset /\ NoPractice

\* focus finish screen: "Normal weiter machen"
ResumeNormal ==
    /\ LET m == Mem
           v == ViewOf(m, questions, only_unanswered, pending)
       IN /\ v.screen = "focus_finish"
          /\ EndRun(resume_normal(m), pending, only_unanswered)
    /\ NoScore /\ NoReset /\ NoPractice

\* focus finish screen: "Fokus nochmal starten"
RestartFocus ==
    /\ LET m == Mem
           v == ViewOf(m, questions, only_unanswered, pending)
       IN /\ v.screen = "focus_finish"
          /\ EndRun(restart_focus(m), pending, only_unanswered)
    /\ NoScore /\ NoReset /\ NoPractice

\* finish screen of a practice run: "Zurueck zum normalen Quiz"
PracticeBack ==
    /\ LET m == Mem
           v == ViewOf(m, questions, only_unanswered, pending)
       IN /\ v.screen = "finish"
          /\ InPractice(m)
          /\ EndRun(practice_back(m, questions, today), pending, only_unanswered)
    /\ NoScore /\ NoReset /\ NoPractice

\* finish screen: "Nur die Falschen ueben"
PracticeWrong ==
    /\ practices < MaxPractice
    /\ LET m == Mem
           v == ViewOf(m, questions, only_unanswered, pending)
       IN /\ v.screen = "finish"
          /\ wrong_ids(m, v.order) # <<>>
          /\ EndRun(practice_wrong(m, v.order, today), pending, only_unanswered)
    /\ NoScore /\ NoReset
    /\ practices' = practices + 1

\* finish screen: "Alle von vorne (neu gemischt)"
ReshuffleAll ==
    /\ epochs < MaxEpochs
    /\ LET m == Mem
           v == ViewOf(m, questions, only_unanswered, pending)
       IN /\ v.screen = "finish"
          /\ EndRun(reshuffle_all(m, questions, today), pending, only_unanswered)
    /\ NoScore
    /\ scheduled' = NoneScheduled
    /\ epochs' = epochs + 1
    /\ NoPractice

\* navigation: "Zurueck"
NavBack ==
    /\ LET m == Mem
           v == ViewOf(m, questions, only_unanswered, pending)
       IN /\ v.screen \in {"question", "modal"}
          /\ v.pos > 0
          /\ EndRun(Put(m, "cursor", Max(0, v.pos - 1)), pending, only_unanswered)
    /\ NoScore /\ NoReset /\ NoPractice

\* navigation: "Weiter" / "Fertig"
NavNext ==
    /\ LET m == Mem
           v == ViewOf(m, questions, only_unanswered, pending)
           is_last == v.pos >= Len(v.order) - 1
       IN /\ v.screen \in {"question", "modal"}
          /\ ~(is_last /\ ~v.locked)
          /\ EndRun(Put(m, "cursor", IF is_last THEN Len(v.order) ELSE v.pos + 1),
                    pending, only_unanswered)
    /\ NoScore /\ NoReset /\ NoPractice

\* navigation: "Ende"
NavEnd ==
    /\ LET m == Mem
           v == ViewOf(m, questions, only_unanswered, pending)
       IN /\ v.screen \in {"question", "modal"}
          /\ EndRun(Put(m, "cursor", Len(v.order)), pending, only_unanswered)
    /\ NoScore /\ NoReset /\ NoPractice

\* "Erklaerung anzeigen" on an answered question; its payload (the stored
\* record) is only displayed
ShowExplanation ==
    /\ LET m == Mem
           v == ViewOf(m, questions, only_unanswered, pending)
       IN /\ v.screen \in {"question", "modal"}
          /\ v.locked
          /\ EndRun(Loaded,
                    <<[qid |-> v.qid, kind |-> "review", no_advance |-> TRUE, payload |-> EmptyMap]>>,
                    only_unanswered)
    /\ NoScore /\ NoReset /\ NoPractice

\* feedback modal: "Schliessen"
ModalClose ==
    /\ LET m == Mem
           v == ViewOf(m, questions, only_unanswered, pending)
       IN /\ v.screen = "modal"
          /\ pending[1].no_advance
          /\ EndRun(Loaded, <<>>, only_unanswered)
    /\ NoScore /\ NoReset /\ NoPractice

\* feedback modal: "Weiter" -> persist_and_advance(pending["payload"])
ModalWeiter ==
    /\ LET m == Mem
           v == ViewOf(m, questions, only_unanswered, pending)
       IN /\ v.screen = "modal"
          /\ ~pending[1].no_advance
          /\ WillSchedule(m, v, pending[1].payload) => Len(v.order) < MaxOrderLen
          /\ EndRun(persist_and_advance(m, v, today, pending[1].payload), <<>>,
                    only_unanswered)
          /\ sent' = deltas_sent(m, v, pending[1].payload)
          /\ lb' = IF deltas_sent(m, v, pending[1].payload) # <<>>
                   THEN lb_upsert_daily(lb, today, deltas_sent(m, v, pending[1].payload)[1])
                   ELSE lb
          /\ scheduled' = IF WillSchedule(m, v, pending[1].payload)
                          THEN [scheduled EXCEPT ![v.qid] = @ + 1]
                          ELSE scheduled
    /\ UNCHANGED <<epochs, practices>>

\* feedback modal: "Weiter" while the leaderboard cannot be written.  On the
\* Supabase path the exception is caught in lb_upsert_daily and the run goes on
\* (pending = None, st.rerun()); on the SQLite path it ends the run where it
\* is.  Either way the progress file is the one saved before the call.
ModalWeiterLbFails ==
    /\ LET m == Mem
           v == ViewOf(m, questions, only_unanswered, pending)
           r == pending[1].payload
       IN /\ v.screen = "modal"
          /\ ~pending[1].no_advance
          /\ deltas_sent(m, v, r) # <<>>
          /\ WillSchedule(m, v, r) => Len(v.order) < MaxOrderLen
          /\ \E raised \in BOOLEAN :
                EndRun(file_when_delta_sent(m, v, today, r),
                       IF raised THEN pending ELSE <<>>, only_unanswered)
          /\ sent' = deltas_sent(m, v, r)
          /\ scheduled' = IF WillSchedule(m, v, r)
                          THEN [scheduled EXCEPT ![v.qid] = @ + 1]
                          ELSE scheduled
    /\ UNCHANGED <<lb, epochs, practices>>

\* variant: the button saves the outcome at once
Stage_and_save(m, v, kind, payload) ==
    /\ EndRun(persist_and_advance(m, v, today, payload),
              <<[qid |-> v.qid, kind |-> kind, no_advance |-> FALSE, payload |-> payload]>>,
              only_unanswered)
    /\ NoScore /\ NoReset /\ NoPractice

\* a submit / skip button: the outcome is staged in st.session_state["pending"]
Stage(m, v, kind, payload) ==
    /\ EndRun(Loaded,
              <<[qid |-> v.qid, kind |-> kind, no_advance |-> FALSE, payload |-> payload]>>,
              only_unanswered)
    /\ NoScore /\ NoReset /\ NoPractice

\* the selections a learner makes on question q
Selections(q) == IF QAnswerType(q) = "multi" THEN {<<0>>, <<0, 1>>} ELSE {<<0>>, <<1>>}
Bool(b) == IF b THEN "true" ELSE "false"
\* "selected": None
NoSelection == <<-1>>

\* "Antwort abgeben"
SubmitMC ==
    /\ LET m == Mem
           v == ViewOf(m, questions, only_unanswered, pending)
       IN /\ v.screen = "question"
          /\ QType(v.qid) = "mc"
          /\ ~v.locked
          /\ \E selected \in Selections(v.qid), unsure_flag \in BOOLEAN :
                Stage(m, v, "submit", [correct |-> Bool(is_correct_mc(Question(v.qid), selected)),
                                       selected |-> selected, unsure |-> unsure_flag])

\* "Ich weiss nicht" on a multiple-choice question
SkipMC ==
    /\ LET m == Mem
           v == ViewOf(m, questions, only_unanswered, pending)
       IN /\ v.screen = "question"
          /\ QType(v.qid) = "mc"
          /\ ~v.locked
          /\ Stage(m, v, "skip", [correct |-> "false", selected |-> NoSelection, skipped |-> TRUE])

\* "Antwort speichern & Loesung anzeigen"
SaveOpen ==
    /\ LET m == Mem
           v == ViewOf(m, questions, only_unanswered, pending)
       IN /\ v.screen = "question"
          /\ QType(v.qid) = "open"
          /\ ~v.locked
          /\ \E unsure_flag \in BOOLEAN :
                Stage(m, v, "open", [correct |-> "null", freeText |-> "text", unsure |-> unsure_flag])

\* "Ich weiss nicht" on an open question
SkipOpen ==
    /\ LET m == Mem
           v == ViewOf(m, questions, only_unanswered, pending)
       IN /\ v.screen = "question"
          /\ QType(v.qid) = "open"
          /\ ~v.locked
          /\ Stage(m, v, "skip", [correct |-> "null", freeText |-> "null", skipped |-> TRUE])

\* ------------------------------------------------------- the environment
EnvFrame ==
    UNCHANGED <<state, pending, only_unanswered, lb, sent, scheduled, epochs, practices, call>>

\* midnight passes
NextDay ==
    /\ today < MaxDay
    /\ today' = today + 1
    /\ UNCHANGED questions
    /\ EnvFrame

\* a question is added to the dataset
AddQuestion ==
    /\ \E q \in QIds \ Range(questions) : questions' = SeqOf(Range(questions) \cup {q})
    /\ UNCHANGED today
    /\ EnvFrame

\* a question is deleted from the dataset (an empty dataset stops every run
\* before the progress file is read)
RemoveQuestion ==
    /\ Len(questions) > 1
    /\ \E q \in Range(questions) : questions' = SeqOf(Range(questions) \ {q})
    /\ UNCHANGED today
    /\ EnvFrame

\* --------------------------------------------------------- specifications
\* the normal traversal: answering, navigation, resets, reshuffle, day change
Core ==
    \/ PageLoad
    \/ ResetCursor
    \/ ResetAll
    \/ ReshuffleAll
    \/ NavBack
    \/ NavNext
    \/ NavEnd
    \/ ShowExplanation
    \/ ModalClose
    \/ ModalWeiter
    \/ SubmitMC
    \/ SkipMC
    \/ SaveOpen
    \/ SkipOpen
    \/ NextDay

Next == Core

Spec == Init /\ [][Next]_vars

\* answering and navigation, the part every scenario below shares
Answering ==
    \/ PageLoad
    \/ NavBack
    \/ NavNext
    \/ NavEnd
    \/ ModalWeiter
    \/ SubmitMC
    \/ SkipMC
    \/ SaveOpen
    \/ SkipOpen

\* focus runs on a fixed dataset and day
NextFocus ==
    \/ Answering
    \/ EnterFocus
    \/ ResumeNormal
    \/ RestartFocus

SpecFocus == Init /\ [][NextFocus]_vars

\* focus runs while the day changes and questions are deleted
NextFocusEnv ==
    \/ PageLoad
    \/ NavNext
    \/ NavEnd
    \/ ModalWeiter
    \/ SubmitMC
    \/ SaveOpen
    \/ EnterFocus
    \/ ResumeNormal
    \/ NextDay
    \/ RemoveQuestion

SpecFocusEnv == Init /\ [][NextFocusEnv]_vars

\* wrong-only practice runs with every kind of submission
NextPractice ==
    \/ PageLoad
    \/ NavNext
    \/ ModalWeiter
    \/ SubmitMC
    \/ SkipMC
    \/ SaveOpen
    \/ SkipOpen
    \/ PracticeWrong
    \/ PracticeBack

SpecPractice == Init /\ [][NextPractice]_vars

\* chained wrong-only practice runs of one day, with navigation and reshuffle
NextRepeat ==
    \/ PageLoad
    \/ NavNext
    \/ NavEnd
    \/ ModalWeiter
    \/ SubmitMC
    \/ PracticeWrong
    \/ ReshuffleAll

SpecRepeat == Init /\ [][NextRepeat]_vars

\* the normal traversal while the dataset is edited and the day changes
NextData ==
    \/ Answering
    \/ AddQuestion
    \/ RemoveQuestion
    \/ NextDay

SpecData == Init /\ [][NextData]_vars

\* the normal traversal with the "Nur unbeantwortete Fragen" toggle
NextToggle ==
    \/ Answering
    \/ ToggleOnlyUnanswered

SpecToggle == Init /\ [][NextToggle]_vars

\* a progress file that carries "sr_gap" (the program only reads the key) or
\* does not
InitGap ==
    /\ state \in {Skeleton} \cup {Put(Skeleton, "sr_gap", g) : g \in 1..MaxGap}
    /\ questions = SeqOf(QIds)
    /\ today = 1
    /\ pending = <<>>
    /\ only_unanswered = FALSE
    /\ lb = EmptyMap
    /\ sent = <<>>
    /\ scheduled = NoneScheduled
    /\ epochs = 0
    /\ practices = 0
    /\ call = <<>>

\* the normal traversal with a configured repetition gap
NextGap == Answering

SpecGap == InitGap /\ [][NextGap]_vars

\* the progress file an earlier session leaves behind when it ends with
\* "Ende" and "Alle von vorne (neu gemischt)" on the first day
ReshuffledFile ==
    LET ids == SeqOf(QIds)
        m == WithActive(Norm(ensure_daily_order(Skeleton, ids, 1)))
    IN reshuffle_all(Put(m, "cursor", Len(ids)), ids, 1)

\* a new player, or one who comes back after a reshuffle
InitNonce ==
    /\ state \in {Skeleton, ReshuffledFile}
    /\ questions = SeqOf(QIds)
    /\ today = 1
    /\ pending = <<>>
    /\ only_unanswered = FALSE
    /\ lb = EmptyMap
    /\ sent = <<>>
    /\ scheduled = NoneScheduled
    /\ epochs = 0
    /\ practices = 0
    /\ call = <<>>

\* the normal traversal with the reset buttons and the reshuffle
NextNonce ==
    \/ Answering
    \/ ResetCursor
    \/ ResetAll
    \/ ReshuffleAll

SpecNonce == InitNonce /\ [][NextNonce]_vars

\* the normal traversal with a leaderboard that cannot always be written
NextLbFail ==
    \/ Answering
    \/ ModalWeiterLbFails

SpecLbFail == Init /\ [][NextLbFail]_vars

\* ------------------------------------------------- functions on their own
\* a function is called with arguments drawn in the initial state; the
\* program's own state stays as a new player's
NoCallYet ==
    /\ state = Skeleton
    /\ questions = SeqOf(QIds)
    /\ today = 1
    /\ pending = <<>>
    /\ only_unanswered = FALSE
    /\ lb = EmptyMap
    /\ sent = <<>>
    /\ scheduled = NoneScheduled
    /\ epochs = 0
    /\ practices = 0

CallFrame ==
    UNCHANGED <<state, questions, today, pending, only_unanswered,
                lb, sent, scheduled, epochs, practices>>

\* the lists of distinct elements of S, in every order
ListsOf(S) ==
    {l \in UNION {[1..n -> S] : n \in 0..Cardinality(S)} :
        \A i, j \in 1..Len(l) : l[i] = l[j] => i = j}

OptionLists == ListsOf(0..(NumOpts - 1))

\* question dicts with and without the "answerType" key
MCQuestions ==
    {[correct |-> c] : c \in OptionLists}
    \cup {[correct |-> c, answerType |-> a] : c \in OptionLists, a \in {"single", "multi"}}

InitMC ==
    /\ NoCallYet
    /\ call \in {<<[fn |-> "is_correct_mc", q |-> q, selected |-> sel, ret |-> "none"]>> :
                    q \in MCQuestions, sel \in OptionLists}

\* correct = is_correct_mc(q, selected)
CallIsCorrectMC ==
    /\ call # <<>>
    /\ call[1].fn = "is_correct_mc"
    /\ call[1].ret = "none"
    /\ call' = <<[call[1] EXCEPT !.ret = Bool(is_correct_mc(call[1].q, call[1].selected))]>>
    /\ CallFrame

NextMC == CallIsCorrectMC

SpecMC == InitMC /\ [][NextMC]_vars

\* -------------------------------------------------- leaderboard reads
\* The table scores_daily / quiz_scores_daily: one row of counters per
\* (player, day).  Players are numbered in the alphabetical order of their
\* (lower-case) names.
Players == 1..NumPlayers
Scores == [correct : 0..MaxScore, wrong : 0..MaxScore, skipped : 0..MaxScore]
Tables == UNION {[D -> Scores] : D \in SUBSET (Players \X Days)}

\* SELECT player, correct, wrong, skipped ... WHERE day = ?  /  .eq("day", day)
RowsOfDay(table, day) ==
    {[player |-> pd[1], correct |-> table[pd].correct, wrong |-> table[pd].wrong,
      skipped |-> table[pd].skipped] : pd \in {x \in DOMAIN table : x[2] = day}}

RECURSIVE SumOver(_, _, _)
SumOver(table, keys, field) ==
    IF keys = {} THEN 0
    ELSE LET k == CHOOSE x \in keys : TRUE
         IN table[k][field] + SumOver(table, keys \ {k}, field)

\* GROUP BY player with SUM(...)  /  the agg dict of the Supabase path
RowsTotal(table) ==
    {[player |-> p,
      correct |-> SumOver(table, {x \in DOMAIN table : x[1] = p}, "correct"),
      wrong |-> SumOver(table, {x \in DOMAIN table : x[1] = p}, "wrong"),
      skipped |-> SumOver(table, {x \in DOMAIN table : x[1] = p}, "skipped")] :
        p \in {x[1] : x \in DOMAIN table}}

\* key (-correct, wrong, skipped)  /  ORDER BY correct DESC, wrong ASC, skipped ASC
Before3(a, b) ==
    \/ a.correct > b.correct
    \/ a.correct = b.correct /\ a.wrong < b.wrong
    \/ a.correct = b.correct /\ a.wrong = b.wrong /\ a.skipped < b.skipped

\* key (-correct, wrong, skipped, player.lower())
Before4(a, b) ==
    \/ Before3(a, b)
    \/ ~Before3(b, a) /\ a.player < b.player

\* every listing of rows the three-key order allows: rows with equal keys come
\* in the order of the response (stable sort) or in the order SQLite picks,
\* neither of which the program fixes
Sorted3(rows) ==
    {l \in [1..Cardinality(rows) -> rows] :
        /\ \A i, j \in 1..Len(l) : l[i] = l[j] => i = j
        /\ \A i, j \in 1..Len(l) : i < j => ~Before3(l[j], l[i])}

\* the listing of rows in the four-key order
Sorted4(rows) ==
    {l \in [1..Cardinality(rows) -> rows] :
        /\ \A i, j \in 1..Len(l) : l[i] = l[j] => i = j
        /\ \A i, j \in 1..Len(l) : i < j => ~Before4(l[j], l[i])}

\* rows[: int(n)]  /  LIMIT ?
Take(l, n) == SubSeq(l, 1, Min(n, Len(l)))

\* the results lb_get_leaderboards(day, n) can return: (today, total)
lb_get_leaderboards(table, day, n, path) ==
    {<<Take(t, n), Take(u, n)>> :
        t \in Sorted3(RowsOfDay(table, day)), u \in Sorted3(RowsTotal(table))}
    \cup (IF path = "supabase" THEN {<< <<>>, <<>> >>} ELSE {})   \* except: return [], []

\* the results lb_top_total(n) can return
lb_top_total(table, n, path) ==
    IF path = "supabase"
    THEN {Take(l, n) : l \in Sorted4(RowsTotal(table))} \cup {<<>>}   \* except: return []
    ELSE {Take(l, n) : l \in Sorted3(RowsTotal(table))}

\* the results lb_top_today(day, n) can return
lb_top_today(table, day, n, path) ==
    IF path = "supabase"
    THEN {Take(l, n) : l \in Sorted4(RowsOfDay(table, day))} \cup {<<>>}   \* except: return []
    ELSE {Take(l, n) : l \in Sorted3(RowsOfDay(table, day))}

\* a read of a table, on the Supabase path or on the SQLite path; ret is
\* <<>> until the function has returned
InitLbRead ==
    /\ NoCallYet
    /\ call \in {<<[fn |-> f, table |-> t, day |-> 1, n |-> n, path |-> p, ret |-> <<>>]>> :
                    f \in {"lb_get_leaderboards", "lb_top_total", "lb_top_today"},
                    t \in Tables, n \in 1..MaxRows, p \in {"supabase", "sqlite"}}

CallLbGetLeaderboards ==
    /\ call # <<>> /\ call[1].fn = "lb_get_leaderboards" /\ call[1].ret = <<>>
    /\ \E r \in lb_get_leaderboards(call[1].table, call[1].day, call[1].n, call[1].path) :
          call' = <<[call[1] EXCEPT !.ret = r]>>
    /\ CallFrame

CallLbTopTotal ==
    /\ call # <<>> /\ call[1].fn = "lb_top_total" /\ call[1].ret = <<>>
    /\ \E r \in lb_top_total(call[1].table, call[1].n, call[1].path) :
          call' = <<[call[1] EXCEPT !.ret = <<r>>]>>
    /\ CallFrame

CallLbTopToday ==
    /\ call # <<>> /\ call[1].fn = "lb_top_today" /\ call[1].ret = <<>>
    /\ \E r \in lb_top_today(call[1].table, call[1].day, call[1].n, call[1].path) :
          call' = <<[call[1] EXCEPT !.ret = <<r>>]>>
    /\ CallFrame

NextLbRead ==
    \/ CallLbGetLeaderboards
    \/ CallLbTopTotal
    \/ CallLbTopToday

SpecLbRead == InitLbRead /\ [][NextLbRead]_vars

\* --------------------------------------------- deterministic_shuffle alone
\* mix keys: f"{today}#{nonce}", and the key with "|new" (1) or "|wrong" (2)
MixKeys ==
    {<<d, n>> : d \in Days, n \in 0..MaxEpochs}
    \cup {<<d, n, x>> : d \in Days, n \in 0..MaxEpochs, x \in {1, 2}}

\* lists of ids, repeated ids included
IdLists == UNION {[1..n -> 1..MaxItems] : n \in 0..MaxItems}

InitShuffle ==
    /\ NoCallYet
    /\ call \in {<<[fn |-> "deterministic_shuffle", player |-> p, key |-> k, items |-> l,
                    rets |-> <<>>]>> :
                    p \in {"alice", "bob"}, k \in MixKeys, l \in IdLists}

\* one more call with the same arguments; rets lists the values returned
CallDeterministicShuffle ==
    /\ call # <<>> /\ call[1].fn = "deterministic_shuffle"
    /\ Len(call[1].rets) < MaxCalls
    /\ call' = <<[call[1] EXCEPT !.rets =
                    Append(@, deterministic_shuffle(call[1].player, call[1].key, call[1].items))]>>
    /\ CallFrame

NextShuffle == CallDeterministicShuffle

SpecShuffle == InitShuffle /\ [][NextShuffle]_vars

\* ---------------------------------------------------- load_questions alone
\* A question of a file is a dict with or without "id"; the functions below
\* return the list of ids of the questions they return.  In the list of the
\* first pass 0 stands for None.
RawQuestions ==
    {[question |-> "text"]} \cup {[question |-> "text", id |-> i] : i \in (-1)..MaxRawId}

\* variant: the next free id is not searched for
SkipUsed_not(n, used) == n

RECURSIVE SkipUsed(_, _)
\* while next_id in used: next_id += 1
SkipUsed(n, used) == IF n \in used THEN SkipUsed(n + 1, used) ELSE n

RECURSIVE first_pass(_, _, _)
\* normalize_ids, first pass: keep valid ids
first_pass(qs, used, out) ==
    IF qs = <<>> THEN out
    ELSE LET qid == Get(Head(qs), "id", 0)
             keep == qid > 0 /\ qid \notin used
         IN first_pass(Tail(qs), IF keep THEN used \cup {qid} ELSE used,
                       Append(out, IF keep THEN qid ELSE 0))

RECURSIVE second_pass(_, _, _, _)
\* normalize_ids, second pass: fill missing ids
second_pass(out, i, used, next_id) ==
    IF i > Len(out) THEN out
    ELSE IF out[i] # 0 THEN second_pass(out, i + 1, used, next_id)
    ELSE LET n == SkipUsed(next_id, used)
         IN second_pass([out EXCEPT ![i] = n], i + 1, used \cup {n}, n + 1)

normalize_ids(qs) ==
    LET kept == first_pass(qs, {}, <<>>)
    IN second_pass(kept, 1, Range(kept) \ {0}, 1)

RECURSIVE custom_pass(_, _, _, _)
\* load_questions: the loop over the custom questions
custom_pass(cs, used, next_id, out) ==
    IF cs = <<>> THEN out
    ELSE LET qid == Get(Head(cs), "id", 0)
         IN IF ~Has(Head(cs), "id") \/ qid \in used \/ qid <= 0
            THEN LET n == SkipUsed(next_id, used)
                 IN custom_pass(Tail(cs), used \cup {n}, n + 1, Append(out, n))
            ELSE custom_pass(Tail(cs), used \cup {qid}, next_id, Append(out, qid))

SetMax(S) == CHOOSE x \in S : \A y \in S : y <= x

\* load_questions(): base + custom
load_questions(base_file, custom_file) ==
    LET base == normalize_ids(base_file)
        base_max == IF base # <<>> THEN SetMax(Range(base)) ELSE 0
    IN IF custom_file # <<>>
       THEN base \o custom_pass(custom_file, Range(base), base_max + 1, <<>>)
       ELSE base

InitLoad ==
    /\ NoCallYet
    /\ call \in {<<[fn |-> "load_questions", base |-> b, custom |-> c, ret |-> <<>>]>> :
                    b \in UNION {[1..n -> RawQuestions] : n \in 0..MaxBase},
                    c \in UNION {[1..n -> RawQuestions] : n \in 0..MaxCustom}}

\* questions = load_questions(); ret is <<>> until the function has returned
CallLoadQuestions ==
    /\ call # <<>> /\ call[1].fn = "load_questions" /\ call[1].ret = <<>>
    /\ call' = <<[call[1] EXCEPT !.ret = <<load_questions(call[1].base, call[1].custom)>>]>>
    /\ CallFrame

NextLoad == CallLoadQuestions

SpecLoad == InitLoad /\ [][NextLoad]_vars

\* ------------------------------------------------------------ properties
\* the counters of day d in the dict s
StatsOf(s, d) == Get(Get(s, "daily", EmptyMap), DAY(d), ZeroCounters)

\* the rows of every day but today are the same in dicts a and b
OtherDaysSame(a, b) ==
    \A d \in Days \ {today} :
        /\ Has(a.daily, DAY(d)) = Has(b.daily, DAY(d))
        /\ Has(a.daily, DAY(d)) => a.daily[DAY(d)] = b.daily[DAY(d)]

\* s is a permutation of the set S without duplicates
IsPermutationOf(s, S) == Range(s) = S /\ Len(s) = Cardinality(S)

\* C1: in every persisted PlayerState the cursor lies in 0..len(order)
C1_CursorInRange == state.cursor \in 0..Len(state.order)

\* C2: the first submission for an id, made in normal mode, adds 1 to today's
\* total and 1 to exactly one of correct / wrong / skipped; every other
\* submission (a focus retry) leaves dailyStats as it is
C2_FirstTimeCounting ==
    [][ModalWeiter =>
        LET m == Mem
            v == Cur
            before == StatsOf(state, today)
            after == StatsOf(state', today)
            first == /\ STR(v.qid) \notin DOMAIN state.answered
                     /\ ~InFocus(m) /\ ~InPractice(m)
        IN IF first
           THEN /\ after.total = before.total + 1
                /\ after.correct - before.correct \in {0, 1}
                /\ after.wrong - before.wrong \in {0, 1}
                /\ after.skipped - before.skipped \in {0, 1}
                /\ (after.correct - before.correct) + (after.wrong - before.wrong)
                     + (after.skipped - before.skipped) = 1
                /\ OtherDaysSame(state, state')
           ELSE state'.daily = state.daily]_vars

\* a focus retry was submitted after the first submission was counted
C2_Witness ==
    /\ InFocus(state)
    /\ Get(state, "focus_answered", EmptyMap) # EmptyMap
    /\ StatsOf(state, today).total >= 1

\* C3: a second ensure_daily_order with the same day, nonce and questions
\* changes neither order nor cursor nor order_date
C3_Idempotent ==
    LET once == Loaded
        twice == ensure_daily_order(once, questions, today)
    IN /\ twice.order = once.order
       /\ twice.cursor = once.cursor
       /\ twice.order_date = once.order_date

\* the first call had work to do on a stored order: it appended, regenerated
\* or clamped
C3_Witness ==
    /\ state.order # <<>>
    /\ \/ Loaded.order # state.order
       \/ Loaded.cursor # state.cursor

\* C4: without reshuffle-all or full reset, at most 2 repeats are ever
\* scheduled for one question id
C4_AtMostTwoRepeats == \A q \in QIds : scheduled[q] <= 2

\* C5: a submission in focus mode changes no dailyStats counter, sends no score
\* delta, and leaves the set of ids locked in the normal traversal as it was
C5_FocusNoScore ==
    [][(ModalWeiter /\ InFocus(Mem)) =>
        /\ state'.daily = state.daily
        /\ sent' = <<>>
        /\ lb' = lb
        /\ DOMAIN state'.answered = DOMAIN state.answered]_vars

\* a focus submission was made
C5_Witness ==
    /\ InFocus(state)
    /\ \E q \in QIds : Has(Get(state, "focus_answered", EmptyMap), STR(q))

\* C6: a submission during wrong-only practice changes no dailyStats counter
\* and sends no score delta, also for an id without a master record
C6_PracticeNoScore ==
    [][(ModalWeiter /\ InPractice(Mem)) =>
        /\ state'.daily = state.daily
        /\ sent' = <<>>
        /\ lb' = lb]_vars

\* both ids were submitted in a practice run and only one submission was ever
\* counted: the other id got its master record during practice
C6_Witness ==
    /\ InPractice(state)
    /\ Cardinality(DOMAIN Get(state, "practice_answered", EmptyMap)) = 2
    /\ Cardinality(DOMAIN state.answered) = 2
    /\ StatsOf(state, today).total = 1

\* C7: after reshuffle-all the cursor is 0, answered is empty, today's counters
\* are zero, the nonce is one more, the mode is normal with no practice or
\* focus run, and order is a duplicate-free permutation of the current ids
C7_ReshuffleAllPost ==
    [][ReshuffleAll =>
        /\ state'.cursor = 0
        /\ state'.answered = EmptyMap
        /\ Has(state'.daily, DAY(today)) /\ state'.daily[DAY(today)] = ZeroCounters
        /\ Get(state', "shuffle_nonce", 0) = Get(state, "shuffle_nonce", 0) + 1
        /\ state'.mode = "normal"
        /\ state'.practice_mode = "all"
        /\ DOMAIN state' \cap {"focus_order", "focus_cursor", "resume_cursor",
                               "practice_answered"} = {}
        /\ IsPermutationOf(state'.order, Range(questions))]_vars

\* reshuffle-all was clicked and its dict is the stored one
C7_Witness ==
    /\ epochs = 1
    /\ Get(state, "shuffle_nonce", 0) = 1
    /\ state.cursor = 0
    /\ state.answered = EmptyMap
    /\ Get(state, "practice_mode", "") = "all"

\* C8: reshuffle-all leaves the dailyStats of every other day as they were and
\* sends nothing to the score aggregator
C8_ReshuffleAllOtherDays ==
    [][ReshuffleAll =>
        /\ OtherDaysSame(state, state')
        /\ sent' = <<>>
        /\ lb' = lb]_vars

\* reshuffle-all was clicked on day 2 and the counters of day 1 are still there
C8_Witness ==
    /\ today = 2
    /\ Get(state, "shuffle_nonce", 0) = 1
    /\ Has(state.daily, DAY(today)) /\ state.daily[DAY(today)] = ZeroCounters
    /\ StatsOf(state, 1).total >= 1
    /\ Has(lb, DAY(1))

\* C9: whenever a run gets to present a question, the id at the effective
\* cursor exists in the current question set
C9_PresentedIdExists ==
    LET v == Cur
    IN v.screen \notin {"focus_finish", "finish"} =>
          v.order[v.pos + 1] \in Range(questions)

\* ids a dataset edit may add
NewIds == (NumQ + 1)..(NumQ + 2)

\* C10: when the question set grows between two ensure_daily_order calls of
\* one day and nonce, the new order is the old order followed by a
\* permutation of exactly the new ids, and the cursor stays where it was
C10_AppendOnly ==
    \A added \in (SUBSET ((QIds \ Range(questions)) \cup NewIds)) \ {{}} :
        LET old == Loaded
            grown == SeqOf(Range(questions) \cup added)
            new == ensure_daily_order(old, grown, today)
            n == Len(old.order)
        IN /\ Len(new.order) = n + Cardinality(added)
           /\ SubSeq(new.order, 1, n) = old.order
           /\ IsPermutationOf(SubSeq(new.order, n + 1, Len(new.order)), added)
           /\ new.cursor = old.cursor

\* the stored order holds a repeat, the cursor is past its start, and a
\* question can be added
C10_Witness ==
    /\ Len(Loaded.order) > Len(questions)
    /\ Loaded.cursor > 0
    /\ QIds \ Range(questions) # {}

\* C11: when the stored order holds an id that is no longer in the question
\* set, ensure_daily_order replaces order by a duplicate-free permutation of
\* the current ids and sets cursor to 0; answered and dailyStats stay
C11_VanishedIdRegenerates ==
    ~(Range(state.order) \subseteq Range(questions)) =>
        /\ IsPermutationOf(Loaded.order, Range(questions))
        /\ Loaded.cursor = 0
        /\ Loaded.answered = state.answered
        /\ Loaded.daily = state.daily

\* a stored order with answers, counters and a cursor past the start holds a
\* deleted id
C11_Witness ==
    /\ ~(Range(state.order) \subseteq Range(questions))
    /\ state.order_date = MixKey(state, today)
    /\ state.cursor > 0
    /\ state.answered # EmptyMap
    /\ state.daily # EmptyMap

\* C12: when the stored key differs from today's key (another day or another
\* nonce) or the stored order is empty, ensure_daily_order sets order to a
\* duplicate-free permutation of the current ids, cursor to 0 and the stored
\* key to today's key; when the key matches and the order is non-empty and
\* valid, the stored order and key are kept
C12_RegenerateOnKeyChange ==
    \A d \in Days, n \in 0..MaxEpochs :
        LET s == Put(state, "shuffle_nonce", n)
            r == ensure_daily_order(s, questions, d)
        IN IF s.order_date # <<d, n>> \/ s.order = <<>>
           THEN /\ IsPermutationOf(r.order, Range(questions))
                /\ r.cursor = 0
                /\ r.order_date = <<d, n>>
           ELSE Range(s.order) \subseteq Range(questions) =>
                   /\ SubSeq(r.order, 1, Len(s.order)) = s.order
                   /\ r.order_date = s.order_date

\* a stored order with repeats and a cursor past the start, made on an
\* earlier day
C12_Witness ==
    /\ Len(state.order) > Len(questions)
    /\ state.cursor > 0
    /\ state.order_date # <<>>
    /\ state.order_date # MixKey(state, today)

\* s without its element at index i
RemoveAt(s, i) == SubSeq(s, 1, i - 1) \o SubSeq(s, i + 1, Len(s))

\* C13: in normal mode a first-time submission that is wrong, skipped or
\* unsure, for an id that does not occur in order after the current position,
\* inserts exactly one duplicate of the id at index min(position + gap,
\* len(order)), gap being 7 by default, and keeps every other element in
\* place; a correct submission that is not unsure leaves order unchanged
C13_RepeatInsertedAtGap ==
    [][(ModalWeiter /\ ~InFocus(Mem) /\ ~Cur.locked) =>
        LET v == Cur
            r == pending[1].payload
            gap == IF Has(state, "sr_gap") THEN state.sr_gap ELSE 7
            at == Min(v.pos + gap, Len(v.order))
            again == \/ Get(r, "skipped", FALSE)
                     \/ r.correct = "false"
                     \/ Get(r, "unsure", FALSE)
            ahead == {v.order[i] : i \in (v.pos + 2)..Len(v.order)}
        IN IF again
           THEN v.qid \notin ahead =>
                   /\ Len(state'.order) = Len(v.order) + 1
                   /\ state'.order[at + 1] = v.qid
                   /\ RemoveAt(state'.order, at + 1) = v.order
           ELSE r.correct = "true" => state'.order = v.order]_vars

\* with a configured gap, a repeat was inserted before the end of the order
C13_Witness ==
    /\ Has(state, "sr_gap")
    /\ Len(state.order) = Len(questions) + 1
    /\ Count(state.order, state.order[Len(state.order)]) = 1

\* C14: a question met again in the normal traversal through its repeat
\* duplicate is first-time-in-run: it is unlocked and can be answered again
C14_RepeatUnlocked ==
    LET v == Cur
    IN (/\ ~InFocus(Mem) /\ ~InPractice(Mem)
        /\ v.screen = "question"
        /\ \E i \in 1..v.pos : v.order[i] = v.qid) => ~v.locked

\* C15: in focus mode a submission that is an answer, correct and not unsure
\* sets mastered on the master record of the question, whatever the earlier
\* record was, and a focus list recomputed afterwards does not hold the id
C15_FocusCorrectMasters ==
    [][(/\ ModalWeiter
        /\ InFocus(Mem)
        /\ pending[1].payload.correct = "true"
        /\ ~Get(pending[1].payload, "unsure", FALSE)
        /\ ~Get(pending[1].payload, "skipped", FALSE)) =>
        /\ Get(state'.answered[STR(Cur.qid)], "mastered", FALSE)
        /\ Cur.qid \notin Range(compute_focus_list(state'))]_vars

\* the master record of q in dict s asks for more practice
NeedsPractice(s, q) ==
    /\ Has(s.answered, STR(q))
    /\ \/ Get(s.answered[STR(q)], "skipped", FALSE)
       \/ Get(s.answered[STR(q)], "correct", "null") = "false"
       \/ Get(s.answered[STR(q)], "unsure", FALSE)
    /\ ~Get(s.answered[STR(q)], "mastered", FALSE)

\* index of the first occurrence of q in the sequence s
FirstIndex(s, q) == SetMin({i \in 1..Len(s) : s[i] = q})

\* C16: entering focus mode stores as focus_order the duplicate-free list, in
\* first-seen order, of the ids of the normal order whose master record is
\* skipped, wrong or unsure and not mastered; focus_cursor is 0, focus_answered
\* is empty, the normal cursor is kept as resume cursor, answered is unchanged
C16_EnterFocusSnapshot ==
    [][EnterFocus =>
        LET s == Loaded
            fo == state'.focus_order
            want == {q \in Range(s.order) : NeedsPractice(s, q)}
        IN /\ Range(fo) = want
           /\ Len(fo) = Cardinality(want)
           /\ \A i, j \in 1..Len(fo) :
                 i < j => FirstIndex(s.order, fo[i]) < FirstIndex(s.order, fo[j])
           /\ state'.mode = "focus_wrong"
           /\ state'.focus_cursor = 0
           /\ state'.focus_answered = EmptyMap
           /\ state'.resume_cursor = s.cursor
           /\ state'.answered = state.answered]_vars

\* a focus run was started while one question was already mastered and
\* another one still needed practice
C16_Witness ==
    /\ InFocus(state)
    /\ Get(state, "focus_answered", EmptyMap) = EmptyMap
    /\ Get(state, "focus_cursor", 0) = 0
    /\ Len(Get(state, "focus_order", <<>>)) = 1
    /\ \E q \in QIds : /\ Get(Record(state, q), "mastered", FALSE)
                       /\ q \notin Range(state.focus_order)

\* C17: entering focus mode at normal cursor c and leaving it later through
\* "resume normal" gives mode normal, cursor c and a state without
\* focus_order, focus_cursor, focus_answered and resume cursor, whatever was
\* submitted, navigated or restarted in between: the entry stores c, no step
\* inside focus mode changes the stored c, and the exit restores it
C17_FocusRoundTrip ==
    [][/\ EnterFocus => state'.resume_cursor = Loaded.cursor
       /\ (InFocus(state) /\ InFocus(state')) => state'.resume_cursor = state.resume_cursor
       /\ ResumeNormal =>
             /\ state'.mode = "normal"
             /\ state'.cursor = state.resume_cursor
             /\ DOMAIN state' \cap {"focus_order", "focus_cursor", "focus_answered",
                                    "resume_cursor"} = {}]_vars

\* a focus run in which a question was mastered has been left, and the
\* normal cursor is past the start
C17_Witness ==
    /\ Get(state, "mode", "") = "normal"
    /\ DOMAIN state \cap {"focus_order", "focus_cursor", "focus_answered",
                          "resume_cursor"} = {}
    /\ \E q \in QIds : Get(Record(state, q), "mastered", FALSE)
    /\ state.cursor > 0

\* C18: no submission made in focus mode changes order; repeats are scheduled
\* in the normal traversal only
C18_FocusKeepsOrder ==
    [][(ModalWeiter /\ InFocus(Mem)) => state'.order = Loaded.order]_vars

\* a wrong answer was submitted in a focus run
C18_Witness ==
    /\ InFocus(state)
    /\ \E q \in QIds :
          /\ Has(Get(state, "focus_answered", EmptyMap), STR(q))
          /\ state.focus_answered[STR(q)].correct = "false"

\* C19: each accepted submission moves the active cursor (cursor in normal and
\* practice mode, focus_cursor in focus mode) to its persisted value plus one,
\* capped at the length of the active order (as the run loaded it, or as the
\* submission left it), and leaves the other cursor as it was; also when the
\* "only unanswered" toggle is on
C19_CursorAdvancesByOne ==
    [][ModalWeiter =>
          IF InFocus(Mem)
          THEN /\ state'.focus_cursor
                    \in {Min(Get(Loaded, "focus_cursor", 0) + 1, Len(Mem.focus_order)),
                         Min(Get(Loaded, "focus_cursor", 0) + 1, Len(state'.focus_order))}
               /\ Get(state', "cursor", 0) = Get(Loaded, "cursor", 0)
          ELSE /\ state'.cursor
                    \in {Min(Get(Loaded, "cursor", 0) + 1, Len(Loaded.order)),
                         Min(Get(Loaded, "cursor", 0) + 1, Len(state'.order))}
               /\ Has(state', "focus_cursor") = Has(Loaded, "focus_cursor")
               /\ Get(state', "focus_cursor", 0) = Get(Loaded, "focus_cursor", 0)]_vars

\* C20: the shuffle nonce never decreases, and the only operation that
\* changes it is reshuffle-all, which adds exactly one
C20_NonceMonotonic ==
    [][LET before == Get(state, "shuffle_nonce", 0)
           after == Get(state', "shuffle_nonce", 0)
       IN /\ after >= before
          /\ after # before => (ReshuffleAll /\ after = before + 1)]_vars

\* C21: a submitted (not skipped) answer to an open question is never scored:
\* its record has correct = null and the submission adds nothing to today's
\* correct counter and nothing to today's wrong counter
C21_OpenAnswerUnscored ==
    [][(ModalWeiter /\ pending[1].kind = "open") =>
          /\ Record(state', pending[1].qid).correct = "null"
          /\ StatsOf(state', today).correct = StatsOf(Loaded, today).correct
          /\ StatsOf(state', today).wrong = StatsOf(Loaded, today).wrong]_vars

\* C22: is_correct_mc returns, in answer mode multi, true iff the set of
\* selected indices equals the set of correct indices, and in answer mode
\* single (the default), true iff exactly one index is selected and it is one
\* of the correct indices
C22_ClassifyMC ==
    (call # <<>> /\ call[1].fn = "is_correct_mc" /\ call[1].ret # "none") =>
        LET q == call[1].q
            chosen == Range(call[1].selected)
            right == Range(q.correct)
            multi == Has(q, "answerType") /\ q.answerType = "multi"
        IN call[1].ret = "true" <=>
              IF multi THEN chosen = right
              ELSE Cardinality(chosen) = 1 /\ chosen \subseteq right

\* a multi question answered with all correct indices in another order
C22_Witness ==
    /\ call # <<>> /\ call[1].fn = "is_correct_mc"
    /\ call[1].ret = "true"
    /\ Get(call[1].q, "answerType", "single") = "multi"
    /\ call[1].q.correct = <<0, 1>>
    /\ call[1].selected = <<1, 0>>

\* C23: an id with a record in the master answered map keeps a record after
\* every operation but reshuffle-all and full reset, and a later submission
\* for the id merges into the record: the fields of the new outcome override,
\* the fields the new outcome does not have are kept
C23_AnsweredKept ==
    [][/\ (~ReshuffleAll /\ ~ResetAll) =>
              DOMAIN state.answered \subseteq DOMAIN state'.answered
       /\ ModalWeiter =>
              LET outcome == pending[1].payload
                  old == Record(Loaded, pending[1].qid)
                  new == Record(state', pending[1].qid)
              IN /\ \A k \in DOMAIN outcome : Has(new, k) /\ new[k] = outcome[k]
                 /\ \A k \in DOMAIN old \ DOMAIN outcome : Has(new, k) /\ new[k] = old[k]]_vars

\* a record that holds the skip of the first submission and the selection of
\* a later one
C23_Witness ==
    \E q \in QIds :
        /\ Get(Record(state, q), "skipped", FALSE)
        /\ Get(Record(state, q), "correct", "null") = "true"
        /\ Get(Record(state, q), "selected", NoSelection) # NoSelection

\* C24: the local state, with its dailyStats increment, is saved before the
\* score delta is sent; when the aggregator call fails, the saved PlayerState
\* is the one a successful call leaves and nothing is rolled back
C24_LbFailureKeepsState ==
    [][ModalWeiterLbFails =>
          LET done == persist_and_advance(Mem, Cur, today, pending[1].payload)
          IN /\ state' = done
             /\ Has(state'.answered, STR(pending[1].qid))
             /\ StatsOf(state', today).total = StatsOf(Loaded, today).total + 1
             /\ state'.cursor = Min(Cur.pos + 1, Len(Cur.order))]_vars

\* a submission was counted in dailyStats while the leaderboard has no row
C24_Witness ==
    /\ StatsOf(state, today).total >= 1
    /\ lb = EmptyMap
    /\ sent # <<>>

\* C25: a submission that increments dailyStats sends exactly one delta, with
\* 1 in the field of the counter that was incremented (correct, wrong or
\* skipped) and 0 in the others; a submission that does not increment
\* dailyStats sends no delta
C25_DeltaMatchesCounter ==
    [][ModalWeiter =>
          LET before == StatsOf(Loaded, today)
              after == StatsOf(state', today)
          IN IF after # before
             THEN /\ Len(sent') = 1
                  /\ sent'[1] = [correct |-> after.correct - before.correct,
                                 wrong |-> after.wrong - before.wrong,
                                 skipped |-> after.skipped - before.skipped]
             ELSE sent' = <<>>]_vars

\* C26: the cursor-only reset sets cursor to 0 and leaves order, answered,
\* dailyStats, the shuffle nonce and the mode as they were, so the questions
\* answered before stay locked
C26_ResetCursorFrame ==
    [][ResetCursor =>
          /\ state'.cursor = 0
          /\ state'.order = Loaded.order
          /\ state'.answered = Loaded.answered
          /\ state'.daily = Loaded.daily
          /\ Get(state', "shuffle_nonce", 0) = Get(Loaded, "shuffle_nonce", 0)
          /\ Get(state', "mode", "normal") = Get(Loaded, "mode", "normal")
          /\ active_answered(WithActive(Norm(state'))) = active_answered(Mem)]_vars

\* the cursor is back at 0 while every question is answered and a reshuffle
\* has raised the nonce
C26_Witness ==
    /\ state.cursor = 0
    /\ Get(state, "shuffle_nonce", 0) = 1
    /\ Len(state.order) >= 2
    /\ \A i \in 1..Len(state.order) : Has(state.answered, STR(state.order[i]))

\* C27: the full reset replaces the persisted state by an empty skeleton
\* (cursor 0, empty order, empty answered, empty dailyStats, no practice run,
\* no focus run), and the next page load yields a duplicate-free permutation
\* of the current ids with cursor 0 and every question unlocked
C27_FullReset ==
    [][ResetAll =>
          /\ state' = Skeleton
          /\ state'.cursor = 0
          /\ state'.order = <<>>
          /\ state'.answered = EmptyMap
          /\ state'.daily = EmptyMap
          /\ ~InFocus(state') /\ ~InPractice(state')
          /\ DOMAIN state' \cap {"focus_order", "focus_answered", "practice_answered"} = {}
          /\ LET next_load == ensure_daily_order(state', questions', today')
             IN /\ IsPermutationOf(next_load.order, Range(questions'))
                /\ next_load.cursor = 0
                /\ active_answered(WithActive(Norm(next_load))) = EmptyMap]_vars

\* the progress file is the skeleton again while the leaderboard still holds
\* the scores counted before the reset
C27_Witness ==
    /\ epochs = 1
    /\ state = Skeleton
    /\ lb # EmptyMap

\* C28: the leaderboard reads (lb_get_leaderboards, lb_top_today,
\* lb_top_total) return at most n rows, sorted by correct descending, then
\* wrong ascending, then skipped ascending, then player ascending, on the
\* Supabase path and on the SQLite path
C28_LeaderboardSorted ==
    (/\ call # <<>>
     /\ call[1].fn \in {"lb_get_leaderboards", "lb_top_total", "lb_top_today"}
     /\ call[1].ret # <<>>) =>
        \A k \in 1..Len(call[1].ret) :
            LET l == call[1].ret[k]
            IN /\ Len(l) <= call[1].n
               /\ \A i, j \in 1..Len(l) : i < j => Before4(l[i], l[j])

C30_UniquePositiveIds ==
    (call # <<>> /\ call[1].fn = "load_questions" /\ call[1].ret # <<>>) =>
        LET ids == call[1].ret[1]
            base == call[1].base
        IN /\ Len(ids) = Len(base) + Len(call[1].custom)
           /\ \A i \in 1..Len(ids) : ids[i] \in Nat \ {0}
           /\ \A i, j \in 1..Len(ids) : ids[i] = ids[j] => i = j
           /\ \A i \in 1..Len(base) :
                 (/\ Has(base[i], "id") /\ base[i].id > 0
                  /\ \A j \in 1..(i - 1) : ~(Has(base[j], "id") /\ base[j].id = base[i].id))
                 => ids[i] = base[i].id

\* a base file with a repeated id and a question without id, and a custom
\* file whose id is taken: every question got an id of its own
C30_Witness ==
    /\ call # <<>> /\ call[1].fn = "load_questions" /\ call[1].ret # <<>>
    /\ Len(call[1].base) = 3 /\ Len(call[1].custom) = 2
    /\ Has(call[1].base[1], "id") /\ call[1].base[1].id = 2
    /\ Has(call[1].base[2], "id") /\ call[1].base[2].id = 2
    /\ ~Has(call[1].base[3], "id")
    /\ Has(call[1].custom[1], "id") /\ call[1].custom[1].id = 2
    /\ call[1].ret[1][1] = 2

\* C31: a wrong-only practice run starts with an order that holds only ids
\* whose master record is wrong, skipped or unsure, and until the run is left
\* no step, page loads included, adds another id to order
C31_PracticeOrderOnlyWrong ==
    [][/\ PracticeWrong =>
              \A q \in Range(state'.order) : IsWrongRecord(Record(Loaded, q))
       /\ (InPractice(state) /\ InPractice(state')) =>
              Range(state'.order) \subseteq Range(state.order)]_vars

\* C32: while the mode is focus, the navigation actions Back, Next / Finish
\* and End leave the cursor of the normal traversal as it was
C32_FocusNavKeepsCursor ==
    [][(InFocus(Mem) /\ (NavBack \/ NavNext \/ NavEnd)) =>
          state'.cursor = Loaded.cursor]_vars

\* C33: with the "only unanswered" toggle on (normal or practice mode), the
\* question shown is at the first position at or after the persisted cursor
\* whose id is not in the active answered map or, when there is none, at the
\* first such position before the cursor; so whenever some id of order is
\* unanswered an unanswered question is shown; and switching the toggle alone
\* does not change the persisted cursor
C33_ToggleShowsNextUnanswered ==
    [][/\ (only_unanswered /\ ~InFocus(Mem)) =>
              LET order == EffOrder(Mem, questions)
                  cursor == EffCursor(Mem, questions)
                  open == {i \in 0..(Len(order) - 1) :
                              ~Has(active_answered(Mem), STR(order[i + 1]))}
                  ahead == {i \in open : i >= cursor}
              IN open # {} =>
                    /\ Cur.screen \in {"question", "modal"}
                    /\ ~Cur.locked
                    /\ Cur.pos = (IF ahead # {} THEN SetMin(ahead) ELSE SetMin(open))
       /\ ToggleOnlyUnanswered => state'.cursor = Loaded.cursor]_vars

C35_FocusRunLength ==
    [][/\ InFocus(Mem) =>
              /\ Mem.focus_cursor = Cardinality(DOMAIN Mem.focus_answered)
              /\ Mem.focus_cursor <= Len(Mem.focus_order)
              /\ (Cur.screen = "focus_finish") <=> (Mem.focus_cursor = Len(Mem.focus_order))
       /\ EnterFocus => state'.focus_cursor = 0
       /\ (RestartFocus /\ InFocus(state')) => state'.focus_cursor = 0
       /\ (InFocus(Mem) /\ ModalWeiter) => state'.focus_cursor = Mem.focus_cursor + 1
       /\ (InFocus(Mem) /\ InFocus(state') /\ ~ModalWeiter /\ ~RestartFocus) =>
              state'.focus_cursor = Mem.focus_cursor]_vars

\* a focus run over two ids is at its finish screen
C35_Witness ==
    /\ InFocus(state)
    /\ Len(state.focus_order) = 2
    /\ state.focus_cursor = 2
    /\ Cur.screen = "focus_finish"

\* C36: for every day of dailyStats, in every reachable state,
\* total = correct + wrong + skipped and unsure <= correct + wrong
C36_DailyStatsConsistent ==
    \A d \in Days :
        Has(state.daily, DAY(d)) =>
            LET row == state.daily[DAY(d)]
            IN /\ row.total = row.correct + row.wrong + row.skipped
               /\ row.unsure <= row.correct + row.wrong

\* a day with a skipped and an unsure submission
C36_Witness ==
    \E d \in Days :
        /\ Has(state.daily, DAY(d))
        /\ state.daily[DAY(d)].skipped >= 1
        /\ state.daily[DAY(d)].unsure >= 1

Sessions == 1..NumSessions

PlayerArgs == {"", " ", "alice"}

\* player.strip()
Strip(name) == IF name \in {"", " "} THEN "" ELSE name

StoredRows == {<<>>} \cup {<<r>> : r \in Scores}

InitUpsert ==
    /\ NoCallYet
    /\ call \in {<<[fn |-> "lb_upsert_daily", before |-> row, row |-> row,
                    sessions |-> ss]>> :
                    row \in StoredRows,
                    ss \in [Sessions -> [pc : {"start"}, player : PlayerArgs,
                                         delta : Scores, existing : {<<>>}]]}

IsUpsertCall == call # <<>> /\ call[1].fn = "lb_upsert_daily"

\* if not player: return
UpsertReturnBlank(i) ==
    /\ IsUpsertCall
    /\ call[1].sessions[i].pc = "start"
    /\ Strip(call[1].sessions[i].player) = ""
    /\ call' = <<[call[1] EXCEPT !.sessions[i].pc = "done"]>>
    /\ CallFrame

\* existing = select(...).eq(player).eq(day)  /  SELECT ... ; row = cur.fetchone()
UpsertSelect(i) ==
    /\ IsUpsertCall
    /\ call[1].sessions[i].pc = "start"
    /\ Strip(call[1].sessions[i].player) # ""
    /\ call' = <<[call[1] EXCEPT !.sessions[i].pc = "selected",
                                 !.sessions[i].existing = call[1].row]>>
    /\ CallFrame

\* the row a call writes after it read existing
upsert_row(existing, delta) ==
    IF existing # <<>>
    THEN [correct |-> existing[1].correct + delta.correct,
          wrong |-> existing[1].wrong + delta.wrong,
          skipped |-> existing[1].skipped + delta.skipped]
    ELSE delta

\* update(...) of the row, or insert(...): an insert of a row that another
\* call has stored meanwhile violates the primary key (player, day) and
\* stores nothing (the Supabase path swallows the error, the SQLite path
\* raises it)
UpsertWrite(i) ==
    /\ IsUpsertCall
    /\ call[1].sessions[i].pc = "selected"
    /\ LET s == call[1].sessions[i]
           stored == IF s.existing = <<>> /\ call[1].row # <<>>
                     THEN call[1].row
                     ELSE <<upsert_row(s.existing, s.delta)>>
       IN call' = <<[call[1] EXCEPT !.sessions[i].pc = "done", !.row = stored]>>
    /\ CallFrame

NextUpsert ==
    \E i \in Sessions : UpsertReturnBlank(i) \/ UpsertSelect(i) \/ UpsertWrite(i)

SpecUpsert == InitUpsert /\ [][NextUpsert]_vars

RECURSIVE SumDeltas(_, _)
SumDeltas(ss, n) ==
    IF n = 0 THEN ZeroRow
    ELSE LET rest == SumDeltas(ss, n - 1)
             d == IF Strip(ss[n].player) = "" THEN ZeroRow ELSE ss[n].delta
         IN [correct |-> rest.correct + d.correct,
             wrong |-> rest.wrong + d.wrong,
             skipped |-> rest.skipped + d.skipped]

AllUpsertsDone == IsUpsertCall /\ \A i \in Sessions : call[1].sessions[i].pc = "done"

C38_SequentialAdditive ==
    [][\A i \in Sessions :
        (UpsertWrite(i) /\ call[1].sessions[i].existing = call[1].row)
            => call'[1].row = <<upsert_row(call[1].row, call[1].sessions[i].delta)>>]_vars

\* a blank player name changes nothing
C38_BlankChangesNothing ==
    [][\A i \in Sessions : UpsertReturnBlank(i) => call'[1].row = call[1].row]_vars

====
